---- MODULE Spec2Model ----
(***************************************************************************)
(* A model of the git-sim MCP server (src/git_sim_mcp/server.py):          *)
(*   - the Command Compiler, build_git_sim_command, a pure function from a *)
(*     structured request to an argument vector (SpecCompiler);            *)
(*   - the Process Runner and Output Interpreter, execute_git_sim, which   *)
(*     spawns the executable, waits for it and builds the result           *)
(*     dictionary (SpecRunner);                                            *)
(*   - the tool-call dispatcher, handle_call_tool, serving two sessions    *)
(*     at a time (SpecServer);                                             *)
(*   - the repository cache behind the clone-repo tool: clone_repo,        *)
(*     cleanup_cloned_repos and the table _cloned_repos (SpecCache);       *)
(*   - the CORS configuration of the network transport, get_cors_config    *)
(*     in src/git_sim_mcp/sse_server.py (SpecCors);                        *)
(*   - one call of handle_call_tool from the arguments to the response     *)
(*     parts, and handle_list_tools (SpecHandler);                         *)
(*   - the calls of two sessions as coroutines of one event loop           *)
(*     (SpecLoop, and SpecLoopFair for what is bound to happen).           *)
(* Strings that the code only copies are TLA+ strings.  Process output,    *)
(* which the code decodes, trims and splits, is a sequence of atoms: a     *)
(* whitespace character, an undecodable byte, or a run of other            *)
(* characters.                                                             *)
(***************************************************************************)
EXTENDS Integers, Sequences, FiniteSets, TLC

VARIABLES
    request,     \* the structured input of the call, as the caller holds it
    given,       \* the input as it was when the caller made it
    call,        \* the input of the most recent compilation
    cmd,         \* the argument vector most recently built
    first_cmd,   \* the vector the first compilation of `request` returned
    cpc,         \* compiler scenario: "start", "once", "twice"
    interleaved, \* whether another request was compiled in between
    fs,          \* the filesystem, as Path.exists() sees it
    pc,          \* execute_git_sim: "idle", "running", "done", "raised"
    proc,        \* the subprocess: returncode and raw stdout, stderr
    result,      \* the dictionary execute_git_sim returned
    calls,       \* the tool calls in flight, one per client session
    cloned_repos,\* the repository cache: (url, path) entries
    dirs,        \* the clone directories that exist on disk
    next_dir,    \* the next name mkdtemp() hands out
    last_op,     \* what the most recent step of the server did
    environ,     \* os.environ, the CORS variables of it
    cors,        \* the dictionary get_cors_config() returned
    tool_call,   \* the name and arguments handle_call_tool was called with
    hpc,         \* handle_call_tool: where it is
    response,    \* what handle_call_tool returned, or the exception it raised
    tools,       \* what handle_list_tools returned
    tasks        \* the calls on the event loop, one coroutine per session

\* the variables of the tool-call dispatcher and the repository cache
server_vars == <<calls, cloned_repos, dirs, next_dir, last_op>>

\* the variables of the CORS configuration
cors_vars == <<environ, cors>>

\* the variables of the compiler and the runner
runner_vars == <<request, given, call, cmd, first_cmd, cpc, interleaved,
                 fs, pc, proc, result>>

vars == <<request, given, call, cmd, first_cmd, cpc, interleaved,
          fs, pc, proc, result, calls, cloned_repos, dirs, next_dir,
          last_op, environ, cors, tool_call, hpc, response, tools, tasks>>

\* the variables of the event loop
loop_vars == <<tasks>>

\* the variables of the two handlers
handler_vars == <<tool_call, hpc, response, tools>>

\* ------------------------------------------------------------------ bounds

\* longest list of positional arguments
MaxArgs == 2
\* longest list of passthrough flags
MaxFlags == 1
\* longest standard output, in atoms
MaxOut == 3

\* ------------------------------------------------------- python primitives

\* Python's None
None == "<None>"

\* truth value of an Optional[str]: None and "" are falsy
Truthy(s) == s # None /\ s # ""

Digit(d) ==
    CASE d = 0 -> "0" [] d = 1 -> "1" [] d = 2 -> "2" [] d = 3 -> "3"
      [] d = 4 -> "4" [] d = 5 -> "5" [] d = 6 -> "6" [] d = 7 -> "7"
      [] d = 8 -> "8" [] d = 9 -> "9"

RECURSIVE NatStr(_)
NatStr(k) == IF k < 10 THEN Digit(k) ELSE NatStr(k \div 10) \o Digit(k % 10)

\* str(n) of an int
Str(k) == IF k < 0 THEN "-" \o NatStr(-k) ELSE NatStr(k)

\* all sequences over S of length at most k
SeqUpTo(S, k) == UNION {[1..m -> S] : m \in 0..k}

\* -------------------------------------------------------- Command Compiler

\* cmd = ["git-sim"]: a fresh list on every call
CmdBaseShared == IF cmd = <<>> THEN <<"git-sim">> ELSE cmd
CmdBase == <<"git-sim">>

AddAnimate(c, r) == IF r.animate THEN Append(c, "--animate") ELSE c

AddCount(c, r) == c \o <<"-n", Str(r.n)>>

AddLightMode(c, r) == IF r.light_mode THEN Append(c, "--light-mode") ELSE c

AddImgFormat(c, r) == c \o <<"--img-format", r.img_format>>

AddVideoAlways(c, r) ==
    LET v == c \o <<"--video-format", r.video_format>>
    IN  IF r.low_quality THEN Append(v, "--low-quality") ELSE v
AddVideo(c, r) ==
    IF r.animate
    THEN LET v == c \o <<"--video-format", r.video_format>>
         IN  IF r.low_quality THEN Append(v, "--low-quality") ELSE v
    ELSE c

AddReverse(c, r) == IF r.reverse THEN Append(c, "--reverse") ELSE c

AddAll(c, r) == IF r.all_branches THEN Append(c, "--all") ELSE c

AddMediaDir(c, r) ==
    IF Truthy(r.media_dir) THEN c \o <<"--media-dir", r.media_dir>> ELSE c

AddOutputOnlyPath(c, r) ==
    IF r.output_only_path THEN Append(c, "--output-only-path") ELSE c

AddNoOpen(c) == Append(c, "-d")

AddExtraFlags(c, r) == IF r.extra_flags # <<>> THEN c \o r.extra_flags ELSE c

AddSubcommand(c, r) == Append(c, r.command)

AddPositionalThenNoOpen(c, r) == Append(c \o r.args, "-d")
AddPositional(c, r) == IF r.args # <<>> THEN c \o r.args ELSE c

build_git_sim_command(r) ==
    LET c1  == AddAnimate(CmdBase, r)
        c2  == AddCount(c1, r)
        c3  == AddLightMode(c2, r)
        c4  == AddImgFormat(c3, r)
        c5  == AddVideo(c4, r)
        c6  == AddReverse(c5, r)
        c7  == AddAll(c6, r)
        c8  == AddMediaDir(c7, r)
        c9  == AddOutputOnlyPath(c8, r)
        c10 == AddNoOpen(c9)
        c11 == AddExtraFlags(c10, r)
        c12 == AddSubcommand(c11, r)
    IN  AddPositional(c12, r)

\* the schema's defaults, which are also the function's
DefaultRequest ==
    [command |-> "log", args |-> <<>>, repo_path |-> ".", animate |-> FALSE,
     n |-> 5, light_mode |-> FALSE, img_format |-> "jpg",
     video_format |-> "mp4", low_quality |-> FALSE, reverse |-> FALSE,
     all_branches |-> FALSE, media_dir |-> None, output_only_path |-> FALSE,
     extra_flags |-> <<>>]

\* the requests the compiler is explored on
CompilerRequests ==
    [command : {"log", "merge"},
     args : SeqUpTo({"feature", "main"}, MaxArgs),
     repo_path : {"."},
     animate : BOOLEAN,
     n : {5, 10},
     light_mode : BOOLEAN,
     img_format : {"jpg", "png"},
     video_format : {"mp4", "webm"},
     low_quality : BOOLEAN,
     reverse : BOOLEAN,
     all_branches : BOOLEAN,
     media_dir : {None, "", "/tmp/output"},
     output_only_path : BOOLEAN,
     extra_flags : SeqUpTo({"--quiet"}, MaxFlags)]

\* {subcommand: merge, args: [feature], count: 10, light_mode: true}
MergeExample ==
    [DefaultRequest EXCEPT !.command = "merge", !.args = <<"feature">>,
                           !.n = 10, !.light_mode = TRUE]

\* compilations of other requests that may come between two of `request`
OtherRequests ==
    {DefaultRequest, MergeExample,
     [DefaultRequest EXCEPT !.animate = TRUE, !.extra_flags = <<"--quiet">>]}

\* the runner at rest, while only the compiler is exercised
RunnerIdle ==
    /\ fs = [p \in {} |-> "absent"]
    /\ pc = "idle"
    /\ proc = [spawned |-> FALSE]
    /\ result = [success |-> FALSE]

\* the dispatcher and the cache at rest
ServerIdle ==
    /\ calls = <<>>
    /\ cloned_repos = {}
    /\ dirs = {}
    /\ next_dir = 1
    /\ last_op = [op |-> "none"]

\* the CORS configuration not yet read
CorsIdle ==
    /\ environ = <<>>
    /\ cors = <<>>

\* the handlers not yet called
HandlersIdle ==
    /\ tool_call = <<>>
    /\ hpc = "idle"
    /\ response = <<>>
    /\ tools = <<>>
    /\ tasks = <<>>

InitCompiler ==
    /\ request \in CompilerRequests
    /\ given = request
    /\ call = request
    /\ cmd = <<>>
    /\ first_cmd = <<>>
    /\ cpc = "start"
    /\ interleaved = FALSE
    /\ RunnerIdle
    /\ ServerIdle
    /\ CorsIdle
    /\ HandlersIdle

\* the first call build_git_sim_command(**request)
CompileFirst ==
    /\ cpc = "start"
    /\ call' = request
    /\ cmd' = build_git_sim_command(request)
    /\ first_cmd' = cmd'
    /\ cpc' = "once"
    /\ UNCHANGED <<request, given, interleaved, fs, pc, proc, result>>
    /\ UNCHANGED <<server_vars, cors_vars, handler_vars, loop_vars>>

\* a call with another request in between
CompileOther ==
    /\ cpc = "once"
    /\ \E r \in OtherRequests :
          /\ call' = r
          /\ cmd' = build_git_sim_command(r)
    /\ interleaved' = TRUE
    /\ UNCHANGED <<request, given, first_cmd, cpc, fs, pc, proc, result>>
    /\ UNCHANGED <<server_vars, cors_vars, handler_vars, loop_vars>>

\* a second call build_git_sim_command(**request)
CompileAgain ==
    /\ cpc = "once"
    /\ call' = request
    /\ cmd' = build_git_sim_command(request)
    /\ cpc' = "twice"
    /\ UNCHANGED <<request, given, first_cmd, interleaved, fs, pc, proc, result>>
    /\ UNCHANGED <<server_vars, cors_vars, handler_vars, loop_vars>>

NextCompiler == CompileFirst \/ CompileOther \/ CompileAgain

SpecCompiler == InitCompiler /\ [][NextCompiler]_vars

\* ------------------------------------------------ Command Compiler: claims

FlagOrder ==
    <<"--animate", "-n", "--light-mode", "--img-format", "--video-format",
      "--low-quality", "--reverse", "--all", "--media-dir",
      "--output-only-path", "-d">>

FlagSet == {FlagOrder[i] : i \in 1..Len(FlagOrder)}

Rank(f) == CHOOSE i \in 1..Len(FlagOrder) : FlagOrder[i] = f

ValuedFlags == {"-n", "--img-format", "--video-format", "--media-dir"}

\* whether request r asks for flag f
Requested(f, r) ==
    CASE f = "--animate" -> r.animate
      [] f = "-n" -> TRUE
      [] f = "--light-mode" -> r.light_mode
      [] f = "--img-format" -> TRUE
      [] f = "--video-format" -> r.animate
      [] f = "--low-quality" -> r.animate /\ r.low_quality
      [] f = "--reverse" -> r.reverse
      [] f = "--all" -> r.all_branches
      [] f = "--media-dir" -> r.media_dir \notin {None, ""}
      [] f = "--output-only-path" -> r.output_only_path
      [] f = "-d" -> TRUE

FlagValue(f, r) ==
    CASE f = "-n" -> Str(r.n)
      [] f = "--img-format" -> r.img_format
      [] f = "--video-format" -> r.video_format
      [] f = "--media-dir" -> r.media_dir

\* C1: the vector ends with exactly the subcommand followed by the positional
\* args in the order supplied; nothing follows the last positional arg and
\* nothing stands between the subcommand and the args.
C1_EndsWithSubcommandAndArgs ==
    cpc # "start" =>
        LET k == Len(call.args)
        IN  /\ Len(cmd) >= k + 1
            /\ SubSeq(cmd, Len(cmd) - k, Len(cmd)) = <<call.command>> \o call.args

C1_Witness ==
    /\ cpc # "start"
    /\ Len(call.args) = 2
    /\ call.args[1] # call.args[2]
    /\ call.extra_flags # <<>>
    /\ call.output_only_path

\* C2: after "git-sim" the flags that are present stand in the fixed order
\* --animate, -n <count>, --light-mode, --img-format <fmt>, --video-format
\* <fmt>, --low-quality, --reverse, --all, --media-dir <dir>,
\* --output-only-path, -d, each at most once and each valued flag directly
\* followed by its value; a flag is present iff it is requested (the two video
\* flags only with animate; -n, --img-format and -d always); then come the
\* passthrough flags, the subcommand and the positional args.  The merge
\* example compiles to the vector the spec gives.  (No value of the explored
\* requests is itself spelled like a flag.)
C2_FixedFlagOrder ==
    cpc # "start" =>
        LET r == call
            fixedEnd == Len(cmd) - Len(r.extra_flags) - 1 - Len(r.args)
            FlagPos == {i \in 2..fixedEnd : cmd[i] \in FlagSet}
        IN  /\ fixedEnd >= 2
            /\ cmd[1] = "git-sim"
            /\ \A f \in FlagSet :
                  Requested(f, r) <=> \E i \in FlagPos : cmd[i] = f
            /\ \A i, j \in FlagPos : i < j => Rank(cmd[i]) < Rank(cmd[j])
            /\ \A i \in FlagPos :
                  cmd[i] \in ValuedFlags =>
                      /\ i + 1 <= fixedEnd
                      /\ cmd[i + 1] = FlagValue(cmd[i], r)
            /\ \A i \in (2..fixedEnd) \ FlagPos :
                  (i - 1) \in FlagPos /\ cmd[i - 1] \in ValuedFlags
            /\ SubSeq(cmd, fixedEnd + 1, Len(cmd))
                  = r.extra_flags \o <<r.command>> \o r.args
            /\ (r = MergeExample =>
                  cmd = <<"git-sim", "-n", "10", "--light-mode", "--img-format",
                          "jpg", "-d", "merge", "feature">>)

C2_Witness ==
    /\ cpc # "start"
    /\ call.animate /\ call.low_quality /\ call.reverse /\ call.all_branches
    /\ call.media_dir = "/tmp/output"
    /\ call.light_mode /\ call.output_only_path
    /\ call.extra_flags # <<>> /\ call.args # <<>>

BadByte == "<0xff>"

\* the media directory's name, the marker the heuristic looks for
Marker == "git-sim_media"

\* the atoms standard output is made of
OutAtoms == {" ", "\n", "a.jpg", "b.mp4", Marker, BadByte}

Whitespace == {" ", "\n"}

\* the paths whose existence varies; every other path is absent
TrackedPaths == {"a.jpg", "b.mp4", Marker}

\* what Path(p).exists() does: True, False, or raise OSError (a stat() error
\* other than ENOENT, ENOTDIR, EBADF, ELOOP, such as EACCES or ENAMETOOLONG)
Kinds == {"absent", "present", "error"}

\* the suffix of an atom, "" when it has none
Suffix(a) == CASE a = "a.jpg" -> ".jpg" [] a = "b.mp4" -> ".mp4" [] OTHER -> ""

MediaSuffixes == {".jpg", ".png", ".mp4", ".webm"}

\* bytes.decode("utf-8", errors="ignore")
Decode(bytes) == SelectSeq(bytes, LAMBDA a : a # BadByte)

RECURSIVE LStrip(_)
LStrip(s) ==
    IF s # <<>> /\ Head(s) \in Whitespace THEN LStrip(Tail(s)) ELSE s

RECURSIVE RStrip(_)
RStrip(s) ==
    IF s # <<>> /\ s[Len(s)] \in Whitespace
    THEN RStrip(SubSeq(s, 1, Len(s) - 1))
    ELSE s

\* str.strip()
Strip(s) == RStrip(LStrip(s))

\* str.split: the pieces between the separators, empty ones kept
RECURSIVE SplitOn(_, _, _, _)
SplitOn(s, seps, done, piece) ==
    IF s = <<>> THEN Append(done, piece)
    ELSE IF Head(s) \in seps
         THEN SplitOn(Tail(s), seps, Append(done, piece), <<>>)
         ELSE SplitOn(Tail(s), seps, done, Append(piece, Head(s)))

\* str.split("\n")
SplitLines(s) == SplitOn(s, {"\n"}, <<>>, <<>>)

\* str.split(): the runs of non-whitespace
SplitWords(s) ==
    SelectSeq(SplitOn(s, Whitespace, <<>>, <<>>), LAMBDA w : w # <<>>)

\* str.endswith((".jpg", ".png", ".mp4", ".webm"))
EndsWithMedia(s) == s # <<>> /\ Suffix(s[Len(s)]) \in MediaSuffixes

\* "git-sim_media" in line
ContainsMarker(s) == \E i \in 1..Len(s) : s[i] = Marker

\* " ".join(cmd)
RECURSIVE Join(_)
Join(c) ==
    IF Len(c) <= 1 THEN c
    ELSE <<Head(c), " ">> \o Join(Tail(c))

\* Path(p).exists() on path p, a text
PathStatus(p) ==
    IF Len(p) = 1 /\ p[1] \in TrackedPaths THEN fs[p[1]] ELSE "absent"

\* ------------------------------------------- Process Runner, Interpreter

NoMedia == [kind |-> "none"]
Raises == [kind |-> "raise"]
Media(p) == [kind |-> "path", path |-> p]

\* explicit mode: the trimmed output, if it exists
ExplicitMediaUnchecked(stdout_str) ==
    LET media_path == Strip(stdout_str)
    IN  IF media_path # <<>> THEN Media(media_path) ELSE NoMedia
ExplicitMediaUntrimmed(stdout_str) ==
    CASE PathStatus(stdout_str) = "error" -> Raises
      [] PathStatus(stdout_str) = "present" -> Media(stdout_str)
      [] OTHER -> NoMedia
ExplicitMedia(stdout_str) ==
    LET media_path == Strip(stdout_str)
    IN  IF media_path = <<>> THEN NoMedia
        ELSE CASE PathStatus(media_path) = "error" -> Raises
               [] PathStatus(media_path) = "present" -> Media(media_path)
               [] OTHER -> NoMedia

\* for part in parts: the first part that exists and has a media suffix
RECURSIVE ScanParts(_, _)
ScanParts(parts, i) ==
    IF i > Len(parts) THEN NoMedia
    ELSE CASE PathStatus(parts[i]) = "error" -> Raises
           [] PathStatus(parts[i]) = "present" /\ EndsWithMedia(parts[i])
                -> Media(parts[i])
           [] OTHER -> ScanParts(parts, i + 1)

\* whether the line is searched
Candidate(line) == ContainsMarker(line) \/ EndsWithMedia(line)

\* for line in lines: the inner break leaves the loop over the parts only,
\* the loop over the lines goes on and a later match overwrites an earlier one
RECURSIVE ScanLines(_, _, _)
ScanLines(lines, i, found) ==
    IF i > Len(lines) THEN found
    ELSE IF Candidate(lines[i])
         THEN LET m == ScanParts(SplitWords(Strip(lines[i])), 1)
              IN  CASE m.kind = "raise" -> Raises
                    [] m.kind = "path" -> ScanLines(lines, i + 1, m)
                    [] OTHER -> ScanLines(lines, i + 1, found)
         ELSE ScanLines(lines, i + 1, found)

HeuristicMedia(stdout_str) == ScanLines(SplitLines(stdout_str), 1, NoMedia)

\* success = result.returncode == 0
SuccessUpToOne(returncode) == returncode \in {0, 1}
Success(returncode) == returncode = 0

\* the text standing for None in the error field
NoneText == <<None>>

\* stderr_str if stderr_str else None
ErrorFieldInverted(stderr_str) ==
    IF stderr_str = <<>> THEN stderr_str ELSE NoneText
ErrorField(stderr_str) == IF stderr_str # <<>> THEN stderr_str ELSE NoneText

\* the response dictionary of a process that ran to its end
Response(c, p) ==
    [success |-> Success(p.returncode),
     output |-> Decode(p.stdout),
     error |-> ErrorField(Decode(p.stderr)),
     command |-> Join(c),
     return_code |-> p.returncode]

ExtractRegardless(r, p) ==
    LET stdout_str == Decode(p.stdout)
    IN  IF stdout_str # <<>>
        THEN IF r.output_only_path
             THEN ExplicitMedia(stdout_str)
             ELSE HeuristicMedia(stdout_str)
        ELSE NoMedia

\* the media path the output yields, if any
Extract(r, p) ==
    LET stdout_str == Decode(p.stdout)
    IN  IF Success(p.returncode) /\ stdout_str # <<>>
        THEN IF r.output_only_path
             THEN ExplicitMedia(stdout_str)
             ELSE HeuristicMedia(stdout_str)
        ELSE NoMedia

\* exceptions that can occur inside the try block
SpawnErrors == {"FileNotFoundError", "PermissionError"}
Exceptions == SpawnErrors \cup {"OSError"}

\* str(e)
Describe(e) ==
    CASE e = "FileNotFoundError" -> <<"[Errno 2] No such file or directory">>
      [] e = "PermissionError" -> <<"[Errno 13] Permission denied">>
      [] OTHER -> <<"[Errno 36] File name too long">>

\* except Exception: every one of them is an Exception
CatchesMissingFileOnly(e) == e = "FileNotFoundError"
Catches(e) == e \in Exceptions

\* the dictionary the except branch returns
ExceptionResult(e, c) ==
    [success |-> FALSE, output |-> <<>>, error |-> Describe(e),
     command |-> Join(c)]

\* an exception inside the try block: caught and returned, or propagated
Handle(e, c) ==
    IF Catches(e)
    THEN [pc |-> "done", result |-> ExceptionResult(e, c)]
    ELSE [pc |-> "raised", result |-> [exception |-> e]]

\* the code after communicate(): decode, build the response, extract
Finish(c, r, p) ==
    LET m == Extract(r, p)
    IN  CASE m.kind = "raise" -> Handle("OSError", c)
          [] m.kind = "path" ->
               [pc |-> "done",
                result |-> ("media_path" :> m.path) @@ Response(c, p)]
          [] OTHER -> [pc |-> "done", result |-> Response(c, p)]

ExitCodes == {0, 1, 128}

Outputs == SeqUpTo(OutAtoms, MaxOut)

ErrOutputs == {<<>>, <<BadByte>>, <<"fatal: repository not found", BadByte>>}

\* the calls of execute_git_sim explored: both extraction modes, a working
\* directory that exists and one that does not
RunnerRequests ==
    {[DefaultRequest EXCEPT !.output_only_path = o, !.repo_path = d] :
        o \in BOOLEAN, d \in {".", "/nonexistent/path"}}

NoProcess == [spawned |-> FALSE]

InitRunner ==
    /\ request \in RunnerRequests
    /\ given = request
    /\ call = request
    /\ cmd = <<>>
    /\ first_cmd = <<>>
    /\ cpc = "start"
    /\ interleaved = FALSE
    /\ fs \in [TrackedPaths -> {"absent", "present"}]
    /\ pc = "idle"
    /\ proc = NoProcess
    /\ result = [success |-> FALSE]
    /\ ServerIdle
    /\ CorsIdle
    /\ HandlersIdle

\* another process (or the subprocess itself) creates, removes or locks away
\* a path, before the result is produced
FsChange ==
    /\ pc \in {"idle", "running"}
    /\ \E p \in TrackedPaths, k \in Kinds :
          /\ fs[p] # k
          /\ fs' = [fs EXCEPT ![p] = k]
    /\ UNCHANGED <<request, given, call, cmd, first_cmd, cpc, interleaved,
                   pc, proc, result>>
    /\ UNCHANGED <<server_vars, cors_vars, handler_vars, loop_vars>>

\* build the command and start the process in repo_path
Spawn ==
    /\ pc = "idle"
    /\ request.repo_path = "."
    /\ call' = request
    /\ cmd' = build_git_sim_command(request)
    /\ proc' = [spawned |-> TRUE]
    /\ pc' = "running"
    /\ UNCHANGED <<request, given, first_cmd, cpc, interleaved, fs, result>>
    /\ UNCHANGED <<server_vars, cors_vars, handler_vars, loop_vars>>

\* create_subprocess_exec raises: the working directory does not exist, the
\* executable is missing or may not be executed
SpawnFails ==
    /\ pc = "idle"
    /\ call' = request
    /\ cmd' = build_git_sim_command(request)
    /\ \E e \in SpawnErrors :
          /\ request.repo_path # "." => e = "FileNotFoundError"
          /\ proc' = [spawned |-> FALSE, spawn_error |-> e]
          /\ pc' = Handle(e, cmd').pc
          /\ result' = Handle(e, cmd').result
    /\ UNCHANGED <<request, given, first_cmd, cpc, interleaved, fs>>
    /\ UNCHANGED <<server_vars, cors_vars, handler_vars, loop_vars>>

\* the process exits with one of the codes and communicate() returns one of
\* the outputs
CommunicateWith(codes, outs, errs) ==
    /\ pc = "running"
    /\ \E rc \in codes, out \in outs, err \in errs :
          /\ proc' = [spawned |-> TRUE, returncode |-> rc,
                      stdout |-> out, stderr |-> err]
          /\ pc' = Finish(cmd, request, proc').pc
          /\ result' = Finish(cmd, request, proc').result
    /\ UNCHANGED <<request, given, call, cmd, first_cmd, cpc, interleaved, fs>>
    /\ UNCHANGED <<server_vars, cors_vars, handler_vars, loop_vars>>

\* the process exits and communicate() returns its output
Communicate == CommunicateWith(ExitCodes, Outputs, ErrOutputs)

\* the caller takes the result and makes its next call
Return ==
    /\ pc = "done"
    /\ request' \in RunnerRequests
    /\ given' = request'
    /\ pc' = "idle"
    /\ proc' = NoProcess
    /\ result' = [success |-> FALSE]
    /\ UNCHANGED <<call, cmd, first_cmd, cpc, interleaved, fs>>
    /\ UNCHANGED <<server_vars, cors_vars, handler_vars, loop_vars>>

NextRunner == FsChange \/ Spawn \/ SpawnFails \/ Communicate \/ Return

SpecRunner == InitRunner /\ [][NextRunner]_vars

\* -------------------------------------------------- Process Runner: claims

\* a result is on hand, of a process that ran to its end
Exited == pc = "done" /\ "returncode" \in DOMAIN proc

\* a result is on hand, of a process that could not be started
SpawnFailed == pc = "done" /\ "spawn_error" \in DOMAIN proc

HasMedia == pc = "done" /\ "media_path" \in DOMAIN result

\* the trimmed, decoded standard output of the process
TrimmedOutput == Strip(Decode(proc.stdout))

\* C4: in every result, success is true iff the result records the exit code
\* zero: no success without return_code 0, and no return_code 0 without
\* success.
C4_SuccessIffExitZero ==
    pc = "done" =>
        (result.success <=>
            ("return_code" \in DOMAIN result /\ result.return_code = 0))

C4_Witness ==
    /\ Exited
    /\ result.success
    /\ result.return_code = 0
    /\ proc.stderr # <<>>

\* C5: a result that carries media_path, in either extraction mode, names a
\* path that Path.exists() finds on disk at the moment the result is produced.
C5_MediaPathExists ==
    HasMedia => PathStatus(result.media_path) = "present"

C5_Witness ==
    /\ HasMedia
    /\ ~request.output_only_path
    /\ Len(proc.stdout) = MaxOut
    /\ \E p \in TrackedPaths : fs[p] = "absent"

\* C6 as claimed: with output-only-path requested, the artifact path is the
\* trimmed output whenever that names an existing path, and unset otherwise.
C6_Original ==
    (Exited /\ request.output_only_path) =>
        IF PathStatus(TrimmedOutput) = "present"
        THEN HasMedia /\ result.media_path = TrimmedOutput
        ELSE ~HasMedia

\* C6, amended: with output-only-path requested and the process exited with
\* code 0, the artifact path is the trimmed output whenever that names an
\* existing path; when it names none, or the exit code is not 0, no artifact
\* path is set, whatever a line-by-line scan of the output would find.
C6_ExplicitMode ==
    (Exited /\ request.output_only_path) =>
        IF proc.returncode = 0 /\ PathStatus(TrimmedOutput) = "present"
        THEN HasMedia /\ result.media_path = TrimmedOutput
        ELSE ~HasMedia

C6_Witness ==
    /\ Exited
    /\ request.output_only_path
    /\ HasMedia
    /\ result.media_path # result.output

\* the first token, in line order and then token order, of a candidate line
\* that exists and has a media suffix
RECURSIVE FirstMatch(_, _)
FirstMatch(lines, i) ==
    IF i > Len(lines) THEN NoMedia
    ELSE LET words == SplitWords(lines[i])
             hits == {j \in 1..Len(words) :
                         /\ PathStatus(words[j]) = "present"
                         /\ EndsWithMedia(words[j])}
         IN  IF Candidate(lines[i]) /\ hits # {}
             THEN Media(words[CHOOSE j \in hits : \A k \in hits : j <= k])
             ELSE FirstMatch(lines, i + 1)

\* C7 as claimed: in heuristic mode the artifact path is the first token, in
\* line order and then token order, of a candidate line that exists and has a
\* media suffix; no token of a later line replaces it.
C7_FirstMatchWins ==
    (Exited /\ result.success /\ ~request.output_only_path) =>
        LET m == FirstMatch(SplitLines(Decode(proc.stdout)), 1)
        IN  IF m.kind = "path"
            THEN HasMedia /\ result.media_path = m.path
            ELSE ~HasMedia

\* C8: a process that exits with a code c other than 0 yields a result, not an
\* exception: success false, return_code c, the decoded standard output, the
\* command line, no media path, and as error the decoded standard error (None
\* standing for an empty one).
C8_NonZeroExitResult ==
    /\ ~(pc = "raised" /\ "returncode" \in DOMAIN proc /\ proc.returncode # 0)
    /\ (Exited /\ proc.returncode # 0) =>
          /\ DOMAIN result =
                {"success", "output", "error", "command", "return_code"}
          /\ result.success = FALSE
          /\ result.return_code = proc.returncode
          /\ result.output = Decode(proc.stdout)
          /\ result.command = Join(cmd)
          /\ result.error =
                IF Decode(proc.stderr) = <<>> THEN NoneText
                ELSE Decode(proc.stderr)

C8_Witness ==
    /\ Exited
    /\ proc.returncode = 128
    /\ result.error = <<"fatal: repository not found">>
    /\ result.output # <<>>
    /\ result.return_code = 128
    /\ ~result.success

\* C9: execute_git_sim never raises; a process that could not be started
\* yields a result with success false whose error is the description of the
\* exception.
C9_NeverRaises ==
    /\ pc # "raised"
    /\ SpawnFailed =>
          /\ result.success = FALSE
          /\ result.error = Describe(proc.spawn_error)

C9_Witness ==
    /\ SpawnFailed
    /\ proc.spawn_error = "PermissionError"
    /\ request.repo_path = "."

\* C10 as claimed: every failure result has the fields of the failure of a
\* process that exited with a code other than 0, return_code among them.
C10_FailureHasReturnCode ==
    (pc = "done" /\ ~result.success) =>
        DOMAIN result = {"success", "output", "error", "command", "return_code"}


(***************************************************************************)
(* handle_call_tool and the repository cache.  Two client sessions call    *)
(* tools at the same time; a call runs until it awaits its subprocess and  *)
(* the event loop then runs the other session.                             *)
(***************************************************************************)

\* how many names mkdtemp() hands out in one run
MaxDirs == 3

\* the client sessions the network transport serves at the same time
Sessions == {"s1", "s2"}

\* the repository URLs the clients ask for
Urls == {"u1", "u2"}

\* Tool(name="git-sim", ...)
GitSimTool == "git-sim"

\* Tool(name="clone-repo", ...)
CloneRepoTool == "clone-repo"

\* the catalog with the clone tool in it
Catalog == {CloneRepoTool, GitSimTool}

\* arguments={}
NoArguments == [k \in {} |-> ""]

\* arguments.get(key)
Get(arguments, key) ==
    IF key \in DOMAIN arguments THEN arguments[key] ELSE None

\* the tool calls the clients make
ToolCalls ==
    {[name |-> GitSimTool, arguments |-> a] :
        a \in {NoArguments, [command |-> "log"], [command |-> ""]}}
    \cup {[name |-> CloneRepoTool, arguments |-> a] :
        a \in {NoArguments} \cup {[repo_url |-> u] : u \in Urls}}
    \cup {[name |-> "no-such-tool", arguments |-> a] :
        a \in {NoArguments, [command |-> "log"], [repo_url |-> "u1"]}}

\* TextContent(type="text", text=...)
TextContent(text) == [type |-> "text", text |-> text]

\* a session with no call in flight
Idle == [pc |-> "idle"]

\* a call that has been received and has touched nothing yet
Received(tc) ==
    [pc |-> "received", name |-> tc.name, arguments |-> tc.arguments,
     proc |-> "none", cached |-> "unread"]

\* what the step about to be taken is, and the cache and the disk before it
Op(op, s) ==
    [op |-> op, session |-> s, repos |-> cloned_repos, dirs |-> dirs]

\* the clone tool is dispatched to its own handler
IsCloneRepo(name) == name = CloneRepoTool

UnknownToolNever(name) == FALSE

\* if name != "git-sim":
UnknownTool(name) == name # GitSimTool

MissingCommandNever(arguments) == FALSE

\* command = arguments.get("command"); if not command:
MissingCommand(arguments) == ~Truthy(Get(arguments, "command"))

\* repo_url = arguments.get("repo_url"); if not repo_url:
MissingRepoUrl(arguments) == ~Truthy(Get(arguments, "repo_url"))

\* raise ValueError(f"Unknown tool: {name}")
UnknownToolError(name) ==
    [type |-> "ValueError", text |-> <<"Unknown tool: ", name>>]

\* "Error: 'command' parameter is required"
RequiredError(field) ==
    <<TextContent(<<"Error: '", field, "' parameter is ", "required">>)>>

\* the text part handle_call_tool builds from the result of execute_git_sim
GitSimResponse(success, command) ==
    IF success
    THEN <<TextContent(<<"<U+2713>", " git-sim ", command, " executed successfully">>)>>
    ELSE <<TextContent(<<"<U+2717>", " git-sim ", command, " failed">>)>>

\* the paths _cloned_repos holds for a URL
Lookup(url) == {e.path : e \in {x \in cloned_repos : x.url = url}}

LiveNever(url) == FALSE

LiveUnchecked(url) == Lookup(url) # {}

\* repo_url in _cloned_repos and os.path.exists(_cloned_repos[repo_url])
Live(url) == \E p \in Lookup(url) : p \in dirs

\* _cloned_repos[repo_url]
CachedPath(url) == CHOOSE p \in Lookup(url) : TRUE

RecordKeepFirst(repos, url, path) ==
    IF \E e \in repos : e.url = url
    THEN repos
    ELSE repos \cup {[url |-> url, path |-> path]}

\* _cloned_repos[repo_url] = temp_dir
Record(repos, url, path) ==
    {e \in repos : e.url # url} \cup {[url |-> url, path |-> path]}

RecordedAlways(repos, url, path, returncode) == Record(repos, url, path)

\* the cache after git clone has exited: only a clone that succeeded is
\* recorded
Recorded(repos, url, path, returncode) ==
    IF returncode = 0 THEN Record(repos, url, path) ELSE repos

\* the exit codes of git clone
CloneExitCodes == {0, 128}

\* the result of clone_repo that found the repository in the cache
ReusedResult(url, path) ==
    [success |-> TRUE, local_path |-> path, repo_url |-> url,
     message |-> <<"Repository ", "already cloned", " at ", path>>]

\* the result of clone_repo after git clone has exited
ClonedResult(url, path, returncode) ==
    IF returncode = 0
    THEN [success |-> TRUE, local_path |-> path, repo_url |-> url,
          message |-> <<"Repository ", "cloned successfully", " to ", path>>]
    ELSE [success |-> FALSE, repo_url |-> url,
          error |-> <<"fatal: repository ", url, " not found">>,
          return_code |-> returncode]

\* the text part handle_clone_repo_tool builds from the result of clone_repo
CloneResponse(r) ==
    IF r.success
    THEN <<TextContent(<<"<U+2713>", r.message>>)>>
    ELSE <<TextContent(<<"<U+2717>", "Clone failed", r.error>>)>>

InitServer ==
    /\ request = DefaultRequest
    /\ given = {}
    /\ call = "none"
    /\ cmd = <<>>
    /\ first_cmd = <<>>
    /\ cpc = "start"
    /\ interleaved = FALSE
    /\ RunnerIdle
    /\ calls = [s \in Sessions |-> Idle]
    /\ cloned_repos = {}
    /\ dirs = {}
    /\ next_dir = 1
    /\ last_op = [op |-> "none"]
    /\ CorsIdle
    /\ HandlersIdle

\* handle_call_tool with a name that is not a tool
RejectUnknown(s) ==
    \E tc \in ToolCalls :
        /\ calls[s].pc = "idle"
        /\ ~IsCloneRepo(tc.name)
        /\ UnknownTool(tc.name)
        /\ calls' = [calls EXCEPT ![s] =
               [error |-> UnknownToolError(tc.name)]
                   @@ [Received(tc) EXCEPT !.pc = "raised"]]
        /\ last_op' = Op("call", s)
        /\ UNCHANGED <<cloned_repos, dirs, next_dir>>
        /\ UNCHANGED <<runner_vars, cors_vars, handler_vars, loop_vars>>

\* handle_call_tool("git-sim") without a command
GitSimMissingCommand(s) ==
    \E tc \in ToolCalls :
        /\ calls[s].pc = "idle"
        /\ ~IsCloneRepo(tc.name)
        /\ ~UnknownTool(tc.name)
        /\ MissingCommand(tc.arguments)
        /\ calls' = [calls EXCEPT ![s] =
               [response |-> RequiredError("command")]
                   @@ [Received(tc) EXCEPT !.pc = "done"]]
        /\ last_op' = Op("call", s)
        /\ UNCHANGED <<cloned_repos, dirs, next_dir>>
        /\ UNCHANGED <<runner_vars, cors_vars, handler_vars, loop_vars>>

\* handle_call_tool("git-sim") up to the await of the subprocess
GitSimSpawn(s) ==
    \E tc \in ToolCalls :
        /\ calls[s].pc = "idle"
        /\ ~IsCloneRepo(tc.name)
        /\ ~UnknownTool(tc.name)
        /\ ~MissingCommand(tc.arguments)
        /\ calls' = [calls EXCEPT ![s] =
               [Received(tc) EXCEPT !.pc = "running", !.proc = "git-sim"]]
        /\ last_op' = Op("call", s)
        /\ UNCHANGED <<cloned_repos, dirs, next_dir>>
        /\ UNCHANGED <<runner_vars, cors_vars, handler_vars, loop_vars>>

\* handle_call_tool("git-sim") when the subprocess cannot be spawned
GitSimSpawnFails(s) ==
    \E tc \in ToolCalls :
        /\ calls[s].pc = "idle"
        /\ ~IsCloneRepo(tc.name)
        /\ ~UnknownTool(tc.name)
        /\ ~MissingCommand(tc.arguments)
        /\ calls' = [calls EXCEPT ![s] =
               [response |-> GitSimResponse(FALSE, Get(tc.arguments, "command"))]
                   @@ [Received(tc) EXCEPT !.pc = "done"]]
        /\ last_op' = Op("call", s)
        /\ UNCHANGED <<cloned_repos, dirs, next_dir>>
        /\ UNCHANGED <<runner_vars, cors_vars, handler_vars, loop_vars>>

\* handle_call_tool("git-sim") from the exit of the subprocess on
GitSimExit(s) ==
    \E success \in BOOLEAN :
        /\ calls[s].pc = "running"
        /\ calls' = [calls EXCEPT ![s] =
               [response |->
                    GitSimResponse(success, Get(calls[s].arguments, "command"))]
                   @@ [calls[s] EXCEPT !.pc = "done"]]
        /\ last_op' = Op("exit", s)
        /\ UNCHANGED <<cloned_repos, dirs, next_dir>>
        /\ UNCHANGED <<runner_vars, cors_vars, handler_vars, loop_vars>>

\* handle_clone_repo_tool without a repo_url
CloneMissingUrl(s) ==
    \E tc \in ToolCalls :
        /\ calls[s].pc = "idle"
        /\ IsCloneRepo(tc.name)
        /\ MissingRepoUrl(tc.arguments)
        /\ calls' = [calls EXCEPT ![s] =
               [response |-> RequiredError("repo_url")]
                   @@ [Received(tc) EXCEPT !.pc = "done"]]
        /\ last_op' = Op("call", s)
        /\ UNCHANGED <<cloned_repos, dirs, next_dir>>
        /\ UNCHANGED <<runner_vars, cors_vars, handler_vars, loop_vars>>

\* clone_repo for a repository whose cached directory exists
CloneReuse(s) ==
    \E tc \in ToolCalls :
        /\ calls[s].pc = "idle"
        /\ IsCloneRepo(tc.name)
        /\ ~MissingRepoUrl(tc.arguments)
        /\ Live(tc.arguments.repo_url)
        /\ LET url == tc.arguments.repo_url
               r == ReusedResult(url, CachedPath(url))
           IN calls' = [calls EXCEPT ![s] =
                  [result |-> r, response |-> CloneResponse(r),
                   found |-> Lookup(url)]
                      @@ [Received(tc) EXCEPT !.pc = "done",
                                              !.cached = "hit"]]
        /\ last_op' = Op("call", s)
        /\ UNCHANGED <<cloned_repos, dirs, next_dir>>
        /\ UNCHANGED <<runner_vars, cors_vars, handler_vars, loop_vars>>

\* the sessions whose git clone of the URL is running
InFlight(url) ==
    {t \in Sessions :
        calls[t].pc = "cloning" /\ calls[t].arguments.repo_url = url}

\* clone_repo up to the await of git clone
CloneSpawn(s) ==
    \E tc \in ToolCalls :
        /\ calls[s].pc = "idle"
        /\ IsCloneRepo(tc.name)
        /\ ~MissingRepoUrl(tc.arguments)
        /\ ~Live(tc.arguments.repo_url)
        /\ next_dir <= MaxDirs
        /\ calls' = [calls EXCEPT ![s] =
               [temp_dir |-> next_dir,
                found |-> Lookup(tc.arguments.repo_url),
                beside |-> InFlight(tc.arguments.repo_url)]
                   @@ [Received(tc) EXCEPT !.pc = "cloning",
                                           !.proc = "git clone",
                                           !.cached = "miss"]]
        /\ dirs' = dirs \cup {next_dir}
        /\ next_dir' = next_dir + 1
        /\ last_op' = Op("call", s)
        /\ UNCHANGED cloned_repos
        /\ UNCHANGED <<runner_vars, cors_vars, handler_vars, loop_vars>>

\* clone_repo from the exit of git clone on
CloneExit(s) ==
    \E returncode \in CloneExitCodes :
        /\ calls[s].pc = "cloning"
        /\ LET url == calls[s].arguments.repo_url
               r == ClonedResult(url, calls[s].temp_dir, returncode)
           IN /\ calls' = [calls EXCEPT ![s] =
                     [result |-> r, response |-> CloneResponse(r),
                      returncode |-> returncode]
                         @@ [calls[s] EXCEPT !.pc = "done"]]
              /\ cloned_repos' =
                     Recorded(cloned_repos, url, calls[s].temp_dir,
                              returncode)
        /\ last_op' = Op("exit", s)
        /\ UNCHANGED <<dirs, next_dir>>
        /\ UNCHANGED <<runner_vars, cors_vars, handler_vars, loop_vars>>

SweptNothing(repos, disk) == disk

\* the directories cleanup_cloned_repos leaves on the disk
Swept(repos, disk) == disk \ {e.path : e \in repos}

\* cleanup_cloned_repos()
Cleanup ==
    /\ dirs' = Swept(cloned_repos, dirs)
    /\ cloned_repos' = {}
    /\ last_op' = Op("cleanup", "server")
    /\ UNCHANGED <<calls, next_dir>>
    /\ UNCHANGED <<runner_vars, cors_vars, handler_vars, loop_vars>>

\* somebody else removes a clone directory
RemoveDir ==
    \E d \in dirs :
        /\ dirs' = dirs \ {d}
        /\ last_op' = [op |-> "rmdir"]
        /\ UNCHANGED <<calls, cloned_repos, next_dir>>
        /\ UNCHANGED <<runner_vars, cors_vars, handler_vars, loop_vars>>

\* the transport sends the answer and the session is free again
Answer(s) ==
    /\ calls[s].pc \in {"done", "raised"}
    /\ calls' = [calls EXCEPT ![s] = Idle]
    /\ last_op' = [op |-> "answer"]
    /\ UNCHANGED <<cloned_repos, dirs, next_dir>>
    /\ UNCHANGED <<runner_vars, cors_vars, handler_vars, loop_vars>>

\* the tool calls of the sessions
NextServer ==
    \/ \E s \in Sessions : RejectUnknown(s)
    \/ \E s \in Sessions : GitSimMissingCommand(s)
    \/ \E s \in Sessions : GitSimSpawn(s)
    \/ \E s \in Sessions : GitSimSpawnFails(s)
    \/ \E s \in Sessions : GitSimExit(s)
    \/ \E s \in Sessions : CloneMissingUrl(s)
    \/ \E s \in Sessions : CloneReuse(s)
    \/ \E s \in Sessions : CloneSpawn(s)
    \/ \E s \in Sessions : CloneExit(s)
    \/ \E s \in Sessions : Answer(s)

SpecServer == InitServer /\ [][NextServer]_vars

\* the repository cache alone: clone_repo called by the sessions, the
\* cleanup of the server, and the disk changing under the cache
NextCache ==
    \/ \E s \in Sessions : CloneReuse(s)
    \/ \E s \in Sessions : CloneSpawn(s)
    \/ \E s \in Sessions : CloneExit(s)
    \/ \E s \in Sessions : Answer(s)
    \/ Cleanup
    \/ RemoveDir

SpecCache == InitServer /\ [][NextCache]_vars

\* the calls that are in flight or answered and not yet sent
Active(s) == calls[s].pc # "idle"

\* the step just taken was a step of the call of session s
JustStepped(s) == last_op.op \in {"call", "exit"} /\ last_op.session = s

\* the step just taken left the cache and the disk as they were
Untouched == cloned_repos = last_op.repos /\ dirs = last_op.dirs

\* C11: a call naming a tool outside the catalog ends in a ValueError whose
\* text begins "Unknown tool", has spawned no subprocess and has not looked
\* into the cache, and the step that rejected it changed neither the cache
\* nor the disk.
C11_UnknownToolRejected ==
    \A s \in Sessions :
        (Active(s) /\ calls[s].name \notin Catalog) =>
            /\ calls[s].pc = "raised"
            /\ calls[s].error.type = "ValueError"
            /\ calls[s].error.text[1] = "Unknown tool: "
            /\ calls[s].proc = "none"
            /\ calls[s].cached = "unread"
            /\ JustStepped(s) => Untouched

\* a call was rejected while the cache held a repository
C11_Witness ==
    \E s \in Sessions :
        /\ Active(s)
        /\ calls[s].name \notin Catalog
        /\ calls[s].pc = "raised"
        /\ JustStepped(s)
        /\ cloned_repos # {}
        /\ dirs # {}


\* a text names a word
Mentions(text, word) == \E i \in DOMAIN text : text[i] = word

\* the call of session s is to a tool of the catalog and lacks the field the
\* tool requires
LacksRequired(s, field) ==
    /\ Active(s)
    /\ \/ calls[s].name = GitSimTool /\ field = "command"
       \/ calls[s].name = CloneRepoTool /\ field = "repo_url"
    /\ field \notin DOMAIN calls[s].arguments

Acquires(s, url) ==
    /\ Active(s)
    /\ calls[s].name = CloneRepoTool
    /\ "repo_url" \in DOMAIN calls[s].arguments
    /\ calls[s].arguments.repo_url = url

\* the step just taken was the first step of the call of session s
JustCalled(s) == last_op.op = "call" /\ last_op.session = s

\* the step just taken was the return of the call of session s from its await
JustExited(s) == last_op.op = "exit" /\ last_op.session = s

\* before the step just taken the cache had an entry for the URL whose
\* directory was on the disk
WasLive(url) ==
    \E e \in last_op.repos : e.url = url /\ e.path \in last_op.dirs

\* C13: clone_repo for a URL whose cache entry names a directory that exists
\* returns at once with success, the path of that entry and a message saying
\* 'already cloned', and spawns nothing.  A clone that succeeded has recorded
\* its directory when it returns, so the next clone_repo for the URL, with the
\* directory kept, returns the same path and the two calls together have run
\* git clone once.
C13_LiveEntryIsReused ==
    \A s \in Sessions : \A url \in Urls :
        /\ (Acquires(s, url) /\ JustCalled(s) /\ WasLive(url)) =>
               /\ calls[s].pc = "done"
               /\ calls[s].result.success
               /\ [url |-> url, path |-> calls[s].result.local_path]
                      \in last_op.repos
               /\ calls[s].result.local_path \in last_op.dirs
               /\ Mentions(calls[s].result.message, "already cloned")
               /\ calls[s].proc = "none"
               /\ "temp_dir" \notin DOMAIN calls[s]
               /\ Untouched
        /\ (Acquires(s, url) /\ JustExited(s) /\ calls[s].result.success) =>
               Lookup(url) = {calls[s].result.local_path}
        /\ \A t \in Sessions \ {s} :
               (/\ Acquires(s, url)
                /\ JustCalled(s)
                /\ Acquires(t, url)
                /\ calls[t].pc = "done"
                /\ calls[t].proc = "git clone"
                /\ calls[t].result.success
                /\ [url |-> url, path |-> calls[t].result.local_path]
                       \in last_op.repos
                /\ calls[t].result.local_path \in last_op.dirs) =>
                   /\ calls[s].pc = "done"
                   /\ calls[s].result.local_path = calls[t].result.local_path
                   /\ calls[s].proc = "none"

\* a clone succeeded and the next clone_repo for the same URL was answered
\* from the cache
C13_Witness ==
    \E s \in Sessions : \E t \in Sessions \ {s} : \E url \in Urls :
        /\ Acquires(t, url)
        /\ calls[t].pc = "done"
        /\ calls[t].proc = "git clone"
        /\ calls[t].result.success
        /\ Acquires(s, url)
        /\ JustCalled(s)
        /\ WasLive(url)
        /\ calls[s].pc = "done"
        /\ calls[s].result.local_path = calls[t].result.local_path


\* git clone of the call of session s has exited with a code other than 0
CloneFailed(s) ==
    /\ Active(s)
    /\ calls[s].pc = "done"
    /\ calls[s].proc = "git clone"
    /\ calls[s].returncode # 0

\* C14: when git clone exits with a code other than 0, clone_repo returns
\* success = False with the error text and that return code and no local
\* path; the step leaves the cache as it was and no entry ever names the
\* directory of the failed clone, so the next clone_repo for a URL that had
\* no live entry runs git clone again.
C14_FailedCloneRecordsNothing ==
    \A s \in Sessions : \A url \in Urls :
        /\ (Acquires(s, url) /\ CloneFailed(s)) =>
               /\ calls[s].result.success = FALSE
               /\ "error" \in DOMAIN calls[s].result
               /\ calls[s].result.return_code = calls[s].returncode
               /\ "local_path" \notin DOMAIN calls[s].result
               /\ \A e \in cloned_repos : e.path # calls[s].temp_dir
               /\ JustExited(s) => cloned_repos = last_op.repos
        /\ \A t \in Sessions \ {s} :
               (/\ Acquires(s, url)
                /\ JustCalled(s)
                /\ ~WasLive(url)
                /\ Acquires(t, url)
                /\ CloneFailed(t)) =>
                   /\ calls[s].pc = "cloning"
                   /\ calls[s].proc = "git clone"
                   /\ calls[s].temp_dir # calls[t].temp_dir

\* git clone has just failed for a URL while the cache held the other URL
C14_Witness ==
    \E s \in Sessions : \E url \in Urls :
        /\ Acquires(s, url)
        /\ CloneFailed(s)
        /\ JustExited(s)
        /\ calls[s].result.return_code = 128
        /\ cloned_repos # {}
        /\ Lookup(url) = {}


\* the step just taken was cleanup_cloned_repos
JustCleaned == last_op.op = "cleanup"

WasStale(url) ==
    /\ \E e \in last_op.repos : e.url = url
    /\ ~WasLive(url)

\* C16: the cache never holds two entries for one URL.  clone_repo for a URL
\* whose recorded directory is gone does not answer from the cache: it runs
\* git clone into a new directory, and when that clone has succeeded it
\* returns the new directory, which is then the only entry of the URL.
C16_OneEntryPerUrlRechecked ==
    \A url \in Urls :
        /\ Cardinality({e \in cloned_repos : e.url = url}) <= 1
        /\ \A s \in Sessions :
               /\ (Acquires(s, url) /\ JustCalled(s) /\ WasStale(url)) =>
                      /\ calls[s].pc = "cloning"
                      /\ calls[s].proc = "git clone"
                      /\ calls[s].temp_dir \in dirs
                      /\ \A e \in last_op.repos :
                             e.path # calls[s].temp_dir
               /\ (/\ Acquires(s, url)
                   /\ JustExited(s)
                   /\ calls[s].found # {}
                   /\ calls[s].result.success) =>
                      /\ calls[s].result.local_path \notin calls[s].found
                      /\ calls[s].result.local_path = calls[s].temp_dir
                      /\ Lookup(url) = {calls[s].temp_dir}

\* a clone_repo that found the recorded directory gone has cloned again and
\* returned
C16_Witness ==
    \E s \in Sessions : \E url \in Urls :
        /\ Acquires(s, url)
        /\ JustExited(s)
        /\ calls[s].found # {}
        /\ calls[s].result.success
        /\ Lookup(url) = {calls[s].temp_dir}


\* the call of session s has cloned the URL with success and returned
Cloned(s, url) ==
    /\ Acquires(s, url)
    /\ calls[s].pc = "done"
    /\ calls[s].proc = "git clone"
    /\ calls[s].result.success

\* C17: nothing serializes clone_repo: the clones in flight at one time, of
\* one URL or of two, run in distinct fresh directories, and when two clones
\* of one URL have both succeeded the cache holds one entry for the URL, the
\* directory of the call that returned last.
C17_LastWriterWins ==
    \A s \in Sessions : \A t \in Sessions \ {s} :
        /\ (calls[s].pc = "cloning" /\ calls[t].pc = "cloning") =>
               /\ calls[s].temp_dir # calls[t].temp_dir
               /\ calls[s].proc = "git clone"
               /\ calls[t].proc = "git clone"
        /\ \A url \in Urls :
               (Cloned(s, url) /\ Cloned(t, url) /\ JustExited(s)) =>
                   /\ calls[s].temp_dir # calls[t].temp_dir
                   /\ Cardinality({e \in cloned_repos : e.url = url}) = 1
                   /\ Lookup(url) = {calls[s].temp_dir}

\* two clones of one URL ran at the same time, both succeeded, and the one
\* spawned first returned last
C17_Witness ==
    \E s \in Sessions : \E t \in Sessions \ {s} : \E url \in Urls :
        /\ Cloned(s, url)
        /\ Cloned(t, url)
        /\ s \in calls[t].beside
        /\ JustExited(s)
        /\ Lookup(url) = {calls[s].temp_dir}
        /\ calls[t].result.local_path # calls[s].result.local_path


(***************************************************************************)
(* get_cors_config.  The value of an environment variable is a text, a     *)
(* sequence of characters; in the list variables a word such as a host     *)
(* name or a method stands as one character.                               *)
(***************************************************************************)

\* the longest value of a list variable
MaxEnv == 3

ACCEPT_ALL == "GIT_SIM_CORS_ACCEPT_ALL"
ALLOW_ORIGINS == "GIT_SIM_CORS_ALLOW_ORIGINS"
ALLOW_METHODS == "GIT_SIM_CORS_ALLOW_METHODS"
ALLOW_HEADERS == "GIT_SIM_CORS_ALLOW_HEADERS"
ALLOW_CREDENTIALS == "GIT_SIM_CORS_ALLOW_CREDENTIALS"

\* os.getenv(name, default)
Getenv(name, default) ==
    IF name \in DOMAIN environ THEN environ[name] ELSE default

\* the letters that have a lower-case form other than themselves
UpperCase == {"T", "R", "U", "E", "Y", "S", "F", "A", "L", "N", "O"}

LowerChar(c) ==
    CASE c = "T" -> "t" [] c = "R" -> "r" [] c = "U" -> "u" [] c = "E" -> "e"
      [] c = "Y" -> "y" [] c = "S" -> "s" [] c = "F" -> "f" [] c = "A" -> "a"
      [] c = "L" -> "l" [] c = "N" -> "n" [] c = "O" -> "o"
      [] OTHER -> c

LowerIdentity(str) == str

\* str.lower()
Lower(str) == [k \in DOMAIN str |-> LowerChar(str[k])]

\* ("true", "1", "yes")
TruthyForms == {<<"t", "r", "u", "e">>, <<"1">>, <<"y", "e", "s">>}

\* os.getenv(name, "false").lower() in ("true", "1", "yes")
Switch(name) ==
    Lower(Getenv(name, <<"f", "a", "l", "s", "e">>)) \in TruthyForms

\* "*"
Star == <<"*">>

\* "GET,POST,OPTIONS"
DefaultMethods == <<"GET", ",", "POST", ",", "OPTIONS">>

ParseListUnstripped(str) == SplitOn(str, {","}, <<>>, <<>>)

\* [x.strip() for x in value.split(",")]
ParseList(str) ==
    LET pieces == SplitOn(str, {","}, <<>>, <<>>)
    IN  [k \in DOMAIN pieces |-> Strip(pieces[k])]

\* [...] if value != "*" else ["*"]
ParseListOrStar(str) == IF str # Star THEN ParseList(str) ELSE <<Star>>

\* the dictionary get_cors_config returns
get_cors_config ==
    IF Switch(ACCEPT_ALL)
    THEN [allow_origins |-> <<Star>>,
          allow_methods |-> <<Star>>,
          allow_headers |-> <<Star>>,
          allow_credentials |-> FALSE]
    ELSE [allow_origins |-> ParseListOrStar(Getenv(ALLOW_ORIGINS, Star)),
          allow_methods |-> ParseList(Getenv(ALLOW_METHODS, DefaultMethods)),
          allow_headers |-> ParseListOrStar(Getenv(ALLOW_HEADERS, Star)),
          allow_credentials |-> Switch(ALLOW_CREDENTIALS)]

\* a variable that is unset, or set to one of the values
Maybe(values) == {<<>>} \cup {<<v>> : v \in values}

\* the part of os.environ a variable makes
Setting(name, maybe) ==
    IF maybe = <<>> THEN [k \in {} |-> <<>>] ELSE name :> maybe[1]

\* os.environ
Environ(accept, origins, methods, headers, credentials) ==
    Setting(ACCEPT_ALL, accept) @@ Setting(ALLOW_ORIGINS, origins)
        @@ Setting(ALLOW_METHODS, methods) @@ Setting(ALLOW_HEADERS, headers)
        @@ Setting(ALLOW_CREDENTIALS, credentials)

\* a letter in lower and in upper case
Cases(c) == {c} \cup {u \in UpperCase : LowerChar(u) = c}

\* every way of writing a word in upper and lower case
Spellings(word) ==
    {str \in [DOMAIN word -> UNION {Cases(word[k]) : k \in DOMAIN word}] :
        \A k \in DOMAIN word : str[k] \in Cases(word[k])}

\* the values of a switch variable
SwitchValues ==
    Spellings(<<"t", "r", "u", "e">>) \cup Spellings(<<"y", "e", "s">>)
        \cup {<<"1">>, <<"0">>, <<>>, <<"n", "o">>, <<"O", "N">>,
              <<"f", "a", "l", "s", "e">>, <<"F", "A", "L", "S", "E">>,
              <<" ", "t", "r", "u", "e">>, <<"t", "r", "u", "e", " ">>,
              <<"t">>}

\* a few values of a switch variable
SomeSwitchValues == {<<"t", "r", "u", "e">>, <<"f", "a", "l", "s", "e">>}

\* the values of a list variable
ListValues == SeqUpTo({",", " ", "*", "a", "b"}, MaxEnv)

\* a few values of a list variable
SomeListValues == {Star, <<"a", ",", " ", "b">>}

\* the server is started with the variables unset or set to these values
StartedWith(accepts, origins, methods, headers, credentials) ==
    \E a \in Maybe(accepts), o \in Maybe(origins), m \in Maybe(methods),
       h \in Maybe(headers), c \in Maybe(credentials) :
        environ = Environ(a, o, m, h, c)

\* the environments the server is started in: every spelling of one switch
\* with a few values of the rest, and every value of one list with a few
\* values of the rest
InitCors ==
    /\ request = DefaultRequest
    /\ given = {}
    /\ call = "none"
    /\ cmd = <<>>
    /\ first_cmd = <<>>
    /\ cpc = "start"
    /\ interleaved = FALSE
    /\ RunnerIdle
    /\ ServerIdle
    /\ \/ StartedWith(SwitchValues, SomeListValues, SomeListValues,
                      SomeListValues, SomeSwitchValues)
       \/ StartedWith(SomeSwitchValues, SomeListValues, SomeListValues,
                      SomeListValues, SwitchValues)
       \/ StartedWith(SomeSwitchValues, ListValues, SomeListValues,
                      SomeListValues, SomeSwitchValues)
       \/ StartedWith(SomeSwitchValues, SomeListValues, ListValues,
                      SomeListValues, SomeSwitchValues)
       \/ StartedWith(SomeSwitchValues, SomeListValues, SomeListValues,
                      ListValues, SomeSwitchValues)
    /\ cors = <<>>
    /\ HandlersIdle

\* cors_config = get_cors_config()
Configure ==
    /\ DOMAIN cors = {}
    /\ cors' = get_cors_config
    /\ UNCHANGED environ
    /\ UNCHANGED <<runner_vars, server_vars, handler_vars, loop_vars>>

NextCors == Configure

SpecCors == InitCors /\ [][NextCors]_vars

\* get_cors_config has returned
Configured == DOMAIN cors # {}

\* the letters and their lower-case forms
CasePairs ==
    {<<"T", "t">>, <<"R", "r">>, <<"U", "u">>, <<"E", "e">>,
     <<"Y", "y">>, <<"S", "s">>}

\* two texts that differ in the case of their letters at most
SameButCase(v, w) ==
    /\ Len(v) = Len(w)
    /\ \A k \in 1..Len(v) :
           v[k] = w[k] \/ <<v[k], w[k]>> \in CasePairs
                       \/ <<w[k], v[k]>> \in CasePairs

\* the variable is set to 'true', '1' or 'yes' in some letter case
SetTruthy(name) ==
    /\ name \in DOMAIN environ
    /\ \E w \in {<<"t", "r", "u", "e">>, <<"1">>, <<"y", "e", "s">>} :
           SameButCase(environ[name], w)

\* C18: when GIT_SIM_CORS_ACCEPT_ALL is 'true', '1' or 'yes' in any letter
\* case, get_cors_config returns origins, methods and headers ['*'] and
\* credentials False, whatever the other four variables are.
C18_AcceptAllOpensPolicy ==
    (Configured /\ SetTruthy(ACCEPT_ALL)) =>
        /\ cors.allow_origins = <<Star>>
        /\ cors.allow_methods = <<Star>>
        /\ cors.allow_headers = <<Star>>
        /\ cors.allow_credentials = FALSE

\* accept-all was spelled in mixed case while origins, methods, headers and
\* credentials were all set to something else
C18_Witness ==
    /\ Configured
    /\ SetTruthy(ACCEPT_ALL)
    /\ environ[ACCEPT_ALL] \notin TruthyForms
    /\ SetTruthy(ALLOW_CREDENTIALS)
    /\ ALLOW_ORIGINS \in DOMAIN environ
    /\ environ[ALLOW_ORIGINS] # Star
    /\ ALLOW_METHODS \in DOMAIN environ
    /\ ALLOW_HEADERS \in DOMAIN environ
    /\ environ[ALLOW_HEADERS] # Star
    /\ cors.allow_origins = <<Star>>


\* where the commas of a text are
Commas(v) == {k \in 1..Len(v) : v[k] = ","}

\* where the k-th comma of a text is
KthComma(v, k) ==
    CHOOSE c \in Commas(v) : Cardinality({d \in Commas(v) : d <= c}) = k

\* a text without the blanks at its two ends
Trimmed(v) ==
    LET ink == {k \in 1..Len(v) : v[k] \notin {" ", "\n"}}
    IN  IF ink = {} THEN <<>>
        ELSE SubSeq(v, CHOOSE a \in ink : \A b \in ink : a <= b,
                       CHOOSE a \in ink : \A b \in ink : a >= b)

\* the items of a comma-separated text, in order, each one trimmed
Items(v) ==
    LET n == Cardinality(Commas(v)) + 1
    IN  [k \in 1..n |->
            Trimmed(SubSeq(v,
                           IF k = 1 THEN 1 ELSE KthComma(v, k - 1) + 1,
                           IF k = n THEN Len(v) ELSE KthComma(v, k) - 1))]

\* what a list setting is to be: the default when the variable is unset,
\* ['*'] for a literal '*', the items of the value otherwise
Expected(name, default) ==
    IF name \notin DOMAIN environ THEN default
    ELSE IF environ[name] = <<"*">> THEN << <<"*">> >>
    ELSE Items(environ[name])

\* C19: when GIT_SIM_CORS_ACCEPT_ALL is unset or is not a truthy form, each
\* of origins, methods and headers is the list of the trimmed items of its
\* own variable, in order, ['*'] for a literal '*', and by default ['*'],
\* ['GET', 'POST', 'OPTIONS'] and ['*']; credentials is True exactly when
\* GIT_SIM_CORS_ALLOW_CREDENTIALS is a truthy form.
C19_IndividualSettings ==
    (Configured /\ ~SetTruthy(ACCEPT_ALL)) =>
        /\ cors.allow_origins = Expected(ALLOW_ORIGINS, << <<"*">> >>)
        /\ cors.allow_methods =
               Expected(ALLOW_METHODS,
                        << <<"GET">>, <<"POST">>, <<"OPTIONS">> >>)
        /\ cors.allow_headers = Expected(ALLOW_HEADERS, << <<"*">> >>)
        /\ cors.allow_credentials = SetTruthy(ALLOW_CREDENTIALS)

\* accept-all was set to a form that is not truthy, the origins were two
\* items with a blank to trim, the methods were left to their default and
\* credentials were switched on
C19_Witness ==
    /\ Configured
    /\ ACCEPT_ALL \in DOMAIN environ
    /\ ~SetTruthy(ACCEPT_ALL)
    /\ ALLOW_ORIGINS \in DOMAIN environ
    /\ environ[ALLOW_ORIGINS] = <<"a", ",", " ", "b">>
    /\ cors.allow_origins = << <<"a">>, <<"b">> >>
    /\ ALLOW_METHODS \notin DOMAIN environ
    /\ cors.allow_methods = << <<"GET">>, <<"POST">>, <<"OPTIONS">> >>
    /\ cors.allow_credentials

\* a value that is no list of items: it is empty or one of its items is
Malformed(name) ==
    /\ name \in DOMAIN environ
    /\ \E k \in DOMAIN Items(environ[name]) : Items(environ[name])[k] = <<>>

\* C20: a list variable whose value is empty or has an empty item is
\* resolved to the default of its setting, and no resolved list holds an
\* empty item.
C20_MalformedFallsBack ==
    Configured =>
        /\ \A list \in {cors.allow_origins, cors.allow_methods,
                        cors.allow_headers} :
               \A k \in DOMAIN list : list[k] # <<>>
        /\ ~SetTruthy(ACCEPT_ALL) =>
               /\ Malformed(ALLOW_ORIGINS) =>
                      cors.allow_origins = << <<"*">> >>
               /\ Malformed(ALLOW_METHODS) =>
                      cors.allow_methods =
                          << <<"GET">>, <<"POST">>, <<"OPTIONS">> >>
               /\ Malformed(ALLOW_HEADERS) =>
                      cors.allow_headers = << <<"*">> >>


(***************************************************************************)
(* handle_call_tool in full, for one call: the options it reads from the   *)
(* arguments, the call of execute_git_sim, and the response it builds from *)
(* the result while other processes change the files.                      *)
(***************************************************************************)

\* how many times handle_list_tools is called
MaxListings == 2

\* the subcommands GIT_SIM_TOOL_SCHEMA enumerates
SubcommandEnum ==
    {"add", "branch", "checkout", "cherry-pick", "clean", "clone", "commit",
     "config", "fetch", "init", "log", "merge", "mv", "pull", "push",
     "rebase", "remote", "reset", "restore", "revert", "rm", "stash",
     "status", "switch", "tag"}

\* the list handle_list_tools returns
handle_list_tools ==
    <<[name |-> GitSimTool,
       required |-> {"command"},
       properties |-> {"command", "args", "repo_path", "animate", "n",
                       "light_mode", "img_format", "video_format",
                       "low_quality", "reverse", "all", "media_dir",
                       "output_only_path", "extra_flags"},
       enum |-> SubcommandEnum]>>

\* arguments.get(key, default)
GetOr(arguments, key, default) ==
    IF key \in DOMAIN arguments THEN arguments[key] ELSE default

OptionsSchemaDefault(arguments) ==
    [DefaultRequest EXCEPT
        !.command = Get(arguments, "command"),
        !.repo_path = GetOr(arguments, "repo_path", "."),
        !.output_only_path = GetOr(arguments, "output_only_path", FALSE)]

\* command, args, repo_path and the options, as handle_call_tool passes them
\* to execute_git_sim
Options(arguments) ==
    [DefaultRequest EXCEPT
        !.command = Get(arguments, "command"),
        !.repo_path = GetOr(arguments, "repo_path", "."),
        !.output_only_path = GetOr(arguments, "output_only_path", TRUE)]

\* the calls of handle_call_tool explored
HandlerCalls ==
    {[name |-> n, arguments |-> a] :
        n \in {GitSimTool, "no-such-tool"},
        a \in {NoArguments,
               [command |-> "log"],
               [command |-> "log", output_only_path |-> TRUE],
               [command |-> "log", output_only_path |-> FALSE],
               [command |-> "log", repo_path |-> "/nonexistent/path"]}}

\* the text of a successful call
SuccessText(command, r) ==
    (IF "media_path" \in DOMAIN r /\ r.media_path # <<>>
     THEN [output_file |-> r.media_path] ELSE [k \in {} |-> <<>>])
    @@ (IF r.output # <<>>
        THEN [output |-> r.output] ELSE [k \in {} |-> <<>>])
    @@ [status |-> "executed successfully", subcommand |-> command,
        command |-> r.command]

\* result.get("return_code", "unknown")
ReturnCodeText(r) ==
    IF "return_code" \in DOMAIN r THEN Str(r.return_code) ELSE "unknown"

\* the text of a failed call
FailureText(command, r) ==
    (IF r.error # NoneText /\ r.error # <<>>
     THEN [error |-> r.error] ELSE [k \in {} |-> <<>>])
    @@ (IF r.output # <<>>
        THEN [output |-> r.output] ELSE [k \in {} |-> <<>>])
    @@ [status |-> "failed", subcommand |-> command, command |-> r.command,
        return_code |-> ReturnCodeText(r)]

\* f"Error executing git-sim: {str(e)}"
ErrorText(e) == [status |-> "Error executing git-sim", error |-> Describe(e)]

\* Path(media_path).suffix.lower()
FileExt(media_path) ==
    IF media_path = <<>> THEN "" ELSE Suffix(media_path[Len(media_path)])

ImageExtsWithVideo == {".jpg", ".jpeg", ".png", ".mp4", ".webm"}

\* [".jpg", ".jpeg", ".png"]
ImageExts == {".jpg", ".jpeg", ".png"}

\* "image/jpeg" if file_ext in [".jpg", ".jpeg"] else "image/png"
MimeType(file_ext) ==
    IF file_ext \in {".jpg", ".jpeg"} THEN "image/jpeg" ELSE "image/png"

\* ImageContent(type="image", data=..., mimeType=...)
ImageContent(media_path, mime_type) ==
    [type |-> "image", data |-> media_path, mimeType |-> mime_type]

HandlerCatchesNothing(e) == FALSE

\* except Exception as e: in handle_call_tool
HandlerCatches(e) == e \in Exceptions

\* the handler after an exception inside its try block
HandlerExcept(e) ==
    IF HandlerCatches(e)
    THEN [hpc |-> "returned", response |-> <<TextContent(ErrorText(e))>>]
    ELSE [hpc |-> "raised", response |-> [exception |-> e]]

\* the response of a successful call up to the reading of the image
AfterSuccess(command, r) ==
    LET parts == <<TextContent(SuccessText(command, r))>>
        media_path == IF "media_path" \in DOMAIN r THEN r.media_path ELSE <<>>
    IN  IF media_path = <<>>
        THEN [hpc |-> "returned", response |-> parts]
        ELSE CASE PathStatus(media_path) = "error" -> HandlerExcept("OSError")
               [] PathStatus(media_path) = "present"
                  /\ FileExt(media_path) \in ImageExts
                    -> [hpc |-> "embedding", response |-> parts]
               [] OTHER -> [hpc |-> "returned", response |-> parts]

\* the response handle_call_tool builds from the result of execute_git_sim
AfterExecute(command, r) ==
    IF r.success
    THEN AfterSuccess(command, r)
    ELSE [hpc |-> "returned",
          response |-> <<TextContent(FailureText(command, r))>>]

InitHandler ==
    /\ request = DefaultRequest
    /\ given = request
    /\ call = request
    /\ cmd = <<>>
    /\ first_cmd = <<>>
    /\ cpc = "start"
    /\ interleaved = FALSE
    /\ fs \in [TrackedPaths -> {"absent", "present"}]
    /\ pc = "idle"
    /\ proc = NoProcess
    /\ result = [success |-> FALSE]
    /\ ServerIdle
    /\ CorsIdle
    /\ tool_call \in HandlerCalls
    /\ hpc = "idle"
    /\ response = <<>>
    /\ tools = <<>>
    /\ tasks = <<>>

\* handle_list_tools()
ListTools ==
    /\ hpc = "idle"
    /\ Len(tools) < MaxListings
    /\ tools' = Append(tools, handle_list_tools)
    /\ UNCHANGED <<tool_call, hpc, response>>
    /\ UNCHANGED <<runner_vars, server_vars, cors_vars, loop_vars>>

\* if name != "git-sim": raise ValueError
HandlerReject ==
    /\ hpc = "idle"
    /\ UnknownTool(tool_call.name)
    /\ hpc' = "raised"
    /\ response' = [exception |-> "ValueError",
                    error |-> UnknownToolError(tool_call.name)]
    /\ UNCHANGED <<tool_call, tools>>
    /\ UNCHANGED <<runner_vars, server_vars, cors_vars, loop_vars>>

\* if not command: return the text that asks for it
HandlerMissingCommand ==
    /\ hpc = "idle"
    /\ ~UnknownTool(tool_call.name)
    /\ MissingCommand(tool_call.arguments)
    /\ hpc' = "returned"
    /\ response' = RequiredError("command")
    /\ UNCHANGED <<tool_call, tools>>
    /\ UNCHANGED <<runner_vars, server_vars, cors_vars, loop_vars>>

\* the options are read and execute_git_sim is called
HandlerExecute ==
    /\ hpc = "idle"
    /\ ~UnknownTool(tool_call.name)
    /\ ~MissingCommand(tool_call.arguments)
    /\ request' = Options(tool_call.arguments)
    /\ given' = request'
    /\ hpc' = "executing"
    /\ UNCHANGED <<call, cmd, first_cmd, cpc, interleaved, fs, pc, proc,
                   result>>
    /\ UNCHANGED <<tool_call, response, tools>>
    /\ UNCHANGED <<server_vars, cors_vars, loop_vars>>

\* execute_git_sim, called by the handler, starts the process
HandlerSpawn == hpc = "executing" /\ Spawn

\* execute_git_sim, called by the handler, cannot start the process
HandlerSpawnFails == hpc = "executing" /\ SpawnFails

\* execute_git_sim, called by the handler, gets the output of the process
HandlerCommunicate ==
    /\ hpc = "executing"
    /\ CommunicateWith({0, 1}, Outputs,
                       {<<>>, <<"fatal: repository not found", BadByte>>})

\* another process removes the media file, puts it back or locks it away
\* after execute_git_sim has looked at it
FsChangeLate ==
    /\ \/ hpc = "executing" /\ pc = "done"
       \/ hpc = "embedding"
    /\ "media_path" \in DOMAIN result
    /\ Len(result.media_path) = 1
    /\ result.media_path[1] \in TrackedPaths
    /\ \E k \in Kinds :
          /\ fs[result.media_path[1]] # k
          /\ fs' = [fs EXCEPT ![result.media_path[1]] = k]
    /\ UNCHANGED <<request, given, call, cmd, first_cmd, cpc, interleaved,
                   pc, proc, result>>
    /\ UNCHANGED <<server_vars, cors_vars, handler_vars, loop_vars>>

\* execute_git_sim has returned: the text part, and the look at the file
HandlerAssemble ==
    /\ hpc = "executing"
    /\ pc = "done"
    /\ LET after == AfterExecute(tool_call.arguments.command, result)
       IN  /\ hpc' = after.hpc
           /\ response' = after.response
    /\ UNCHANGED <<tool_call, tools>>
    /\ UNCHANGED <<runner_vars, server_vars, cors_vars, loop_vars>>

\* open(media_path, "rb"), read, encode; an error is logged and passed over
HandlerEmbed ==
    /\ hpc = "embedding"
    /\ \E readable \in BOOLEAN :
          response' =
              IF PathStatus(result.media_path) = "present" /\ readable
              THEN Append(response,
                          ImageContent(result.media_path,
                                       MimeType(FileExt(result.media_path))))
              ELSE response
    /\ hpc' = "returned"
    /\ UNCHANGED <<tool_call, tools>>
    /\ UNCHANGED <<runner_vars, server_vars, cors_vars, loop_vars>>

NextHandler ==
    \/ ListTools
    \/ HandlerReject
    \/ HandlerMissingCommand
    \/ HandlerExecute
    \/ HandlerSpawn
    \/ HandlerSpawnFails
    \/ HandlerCommunicate
    \/ FsChangeLate
    \/ HandlerAssemble
    \/ HandlerEmbed

SpecHandler == InitHandler /\ [][NextHandler]_vars


\* handle_call_tool has returned the response of a call that was executed
Answered == hpc = "returned" /\ pc = "done"

\* the response is the one line of the handler's except branch
IsErrorText == response[1].text.status = "Error executing git-sim"

\* the result of execute_git_sim names a media file
NamesMedia == "media_path" \in DOMAIN result

\* C21: a response that reports success begins with one text part holding
\* the status, the command line that was run and the decoded output of the
\* tool; at most one more part follows, an image, and only when the media
\* path exists and ends in .jpg, .jpeg or .png; a media path ending in .mp4
\* or .webm is named in the text and nothing is embedded.
C21_SuccessResponseShape ==
    (Answered /\ result.success /\ ~IsErrorText) =>
        /\ response[1].type = "text"
        /\ response[1].text.status = "executed successfully"
        /\ response[1].text.command = Join(cmd)
        /\ Decode(proc.stdout) # <<>> =>
               response[1].text.output = Decode(proc.stdout)
        /\ Len(response) <= 2
        /\ Len(response) = 2 =>
               /\ response[2].type = "image"
               /\ NamesMedia
               /\ response[2].data = result.media_path
               /\ PathStatus(result.media_path) = "present"
               /\ FileExt(result.media_path) \in {".jpg", ".jpeg", ".png"}
        /\ (NamesMedia /\ FileExt(result.media_path) \in {".mp4", ".webm"}) =>
               /\ Len(response) = 1
               /\ response[1].text.output_file = result.media_path

\* a successful call has been answered with its text and the image
C21_Witness ==
    /\ Answered
    /\ result.success
    /\ Len(response) = 2
    /\ response[2].mimeType = "image/jpeg"
    /\ response[1].text.output_file = <<"a.jpg">>

\* C22: when the media file of a successful call is gone or cannot be read
\* when the handler comes to embed it, the handler returns the text of the
\* successful call alone and raises nothing.
C22_ArtifactFailureDegrades ==
    /\ tool_call.name = GitSimTool => hpc # "raised"
    /\ (/\ Answered
        /\ result.success
        /\ NamesMedia
        /\ PathStatus(result.media_path) # "present") =>
           /\ Len(response) = 1
           /\ response[1].type = "text"
           /\ response[1].text.status = "executed successfully"

\* C23: handle_call_tool raises for an unknown tool name only, and then a
\* ValueError; execute_git_sim raises nothing; a call of git-sim that has
\* ended has returned a list of parts that begins with a text, also when
\* the process could not be started, exited with an error, or a file could
\* not be looked at.
C23_OnlyUnknownToolRaises ==
    /\ hpc = "raised" =>
           /\ tool_call.name # GitSimTool
           /\ response.exception = "ValueError"
    /\ pc # "raised"
    /\ (tool_call.name = GitSimTool
        /\ hpc \notin {"idle", "executing", "embedding"}) =>
           /\ hpc = "returned"
           /\ Len(response) >= 1
           /\ response[1].type = "text"
           /\ \A k \in 2..Len(response) : response[k].type = "image"

\* the look at the media file failed in the handler and the call was
\* answered with a text
C23_Witness ==
    /\ Answered
    /\ tool_call.name = GitSimTool
    /\ result.success
    /\ NamesMedia
    /\ PathStatus(result.media_path) = "error"
    /\ Len(response) = 1
    /\ response[1].type = "text"


\* the tool of the given name in a listing, as a set of at most one
Listed(listing, name) ==
    {listing[j] : j \in {n \in 1..Len(listing) : listing[n].name = name}}

\* C24: every list handle_list_tools returns holds exactly two tools,
\* git-sim, which requires "command" and enumerates its subcommands, and
\* clone-repo, which requires "repo_url" and has an optional "branch"; and
\* all the lists returned are the same.
C24_CatalogHasTwoTools ==
    /\ \A k \in 1..Len(tools) :
           /\ Len(tools[k]) = 2
           /\ \E t \in Listed(tools[k], GitSimTool) :
                  /\ "command" \in t.required
                  /\ t.enum = SubcommandEnum
           /\ \E t \in Listed(tools[k], CloneRepoTool) :
                  /\ t.required = {"repo_url"}
                  /\ "branch" \in t.properties
    /\ \A k, l \in 1..Len(tools) : tools[k] = tools[l]

\* the fields of "arguments" that a call of git-sim was made with
Arguments == tool_call.arguments

\* the call is one of git-sim that got as far as execute_git_sim
Executed ==
    /\ tool_call.name = GitSimTool
    /\ hpc \in {"executing", "embedding", "returned"}
    /\ "command" \in DOMAIN Arguments

\* the call asks for the path alone: it says so, or says nothing
WantsPathOnly ==
    "output_only_path" \in DOMAIN Arguments => Arguments.output_only_path

C28_FailureHasNoArtifact ==
    /\ (pc = "done" /\ ~result.success) => ~NamesMedia
    /\ (Answered /\ ~result.success) =>
           /\ Len(response) = 1
           /\ response[1].type = "text"
           /\ response[1].text.status \in {"failed", "Error executing git-sim"}
    /\ (Answered /\ Exited /\ proc.returncode # 0) =>
           response[1].text.status = "failed"

\* git-sim exited with an error after printing the path of a file that
\* exists, and the call was answered
C28_Witness ==
    /\ Answered
    /\ Exited
    /\ proc.returncode # 0
    /\ Decode(proc.stdout) = <<"a.jpg">>
    /\ fs["a.jpg"] = "present"
    /\ Len(response) = 1


\* ------------------------------- overlapping calls on one event loop
\* Each session's call is a coroutine of the one asyncio event loop.  It
\* runs alone from one await to the next; the awaits of a call are
\* create_subprocess_exec and communicate in execute_git_sim.  Every call
\* has a process of its own.  Each coroutine logs what it does.

\* the calls the sessions make
LoopCalls ==
    {[name |-> GitSimTool, arguments |-> [command |-> "log"]],
     [name |-> GitSimTool, arguments |-> NoArguments],
     [name |-> "no-such-tool", arguments |-> [command |-> "log"]]}

\* what a process does once started: never end, or end with an exit code
\* after printing nothing, a text, or the path of an image or of a video
Printed == {"nothing", "text", "image", "video"}
Hangs == [hangs |-> TRUE, returncode |-> 0, stdout |-> "nothing"]
Fates ==
    {Hangs} \cup
    [hangs : {FALSE}, returncode : {0, 1}, stdout : Printed]

\* a call that was received and has not begun to run
Task(tc) ==
    [call |-> tc, pc |-> "idle", events |-> <<>>, process |-> "none",
     fate |-> Hangs]

\* the task after it did the things named and came to the place named
Did(task, es, place) == [task EXCEPT !.events = @ \o es, !.pc = place]

\* what the call does between the return of communicate and its own
\* return: execute_git_sim looks for the file the output names if the
\* exit code was 0 and there was output; handle_call_tool looks at the
\* media path again, reads the file if it is an image, and responds
AfterExit(fate) ==
    LET success == fate.returncode = 0
        looks == IF success /\ fate.stdout # "nothing"
                 THEN <<"exists">> ELSE <<>>
        media == success /\ fate.stdout \in {"image", "video"}
        again == IF media THEN <<"exists">> ELSE <<>>
        reads == IF success /\ fate.stdout = "image"
                 THEN <<"read">> ELSE <<>>
    IN  looks \o again \o reads \o <<"respond">>

InitLoop ==
    /\ request = DefaultRequest
    /\ given = {}
    /\ call = "none"
    /\ cmd = <<>>
    /\ first_cmd = <<>>
    /\ cpc = "start"
    /\ interleaved = FALSE
    /\ RunnerIdle
    /\ ServerIdle
    /\ CorsIdle
    /\ tool_call = <<>>
    /\ hpc = "idle"
    /\ response = <<>>
    /\ tools = <<>>
    /\ tasks \in [Sessions -> {Task(tc) : tc \in LoopCalls}]

\* the rest of the state, which the calls on the loop leave alone
LoopOnly == UNCHANGED <<runner_vars, server_vars, cors_vars, handler_vars>>

\* if name != "git-sim": raise ValueError
LoopReject(s) ==
    /\ tasks[s].pc = "idle"
    /\ UnknownTool(tasks[s].call.name)
    /\ tasks' = [tasks EXCEPT ![s] = Did(@, <<"validate">>, "raised")]
    /\ LoopOnly

\* if not command: return the text that asks for it
LoopMissingCommand(s) ==
    /\ tasks[s].pc = "idle"
    /\ ~UnknownTool(tasks[s].call.name)
    /\ MissingCommand(tasks[s].call.arguments)
    /\ tasks' = [tasks EXCEPT
                    ![s] = Did(@, <<"validate", "respond">>, "returned")]
    /\ LoopOnly

\* the call is valid: execute_git_sim builds the command and awaits
\* create_subprocess_exec
LoopCall(s) ==
    /\ tasks[s].pc = "idle"
    /\ ~UnknownTool(tasks[s].call.name)
    /\ ~MissingCommand(tasks[s].call.arguments)
    /\ tasks' = [tasks EXCEPT
                    ![s] = Did(@, <<"validate", "compile">>, "spawning")]
    /\ LoopOnly

\* create_subprocess_exec returns the process; the call awaits communicate
LoopSpawned(s) ==
    /\ tasks[s].pc = "spawning"
    /\ \E fate \in Fates :
          tasks' = [tasks EXCEPT
                       ![s] = [Did(@, <<"spawn">>, "waiting") EXCEPT
                                  !.process = "running", !.fate = fate]]
    /\ LoopOnly

\* create_subprocess_exec raises: the except branch of execute_git_sim
\* returns a failure and the handler responds
LoopSpawnFails(s) ==
    /\ tasks[s].pc = "spawning"
    /\ tasks' = [tasks EXCEPT ![s] = Did(@, <<"respond">>, "returned")]
    /\ LoopOnly

\* the process of the call ends, unless it is one that never does
ProcessExits(s) ==
    /\ tasks[s].process = "running"
    /\ ~tasks[s].fate.hangs
    /\ tasks' = [tasks EXCEPT ![s] = [Did(@, <<"exit">>, @.pc) EXCEPT
                                         !.process = "exited"]]
    /\ LoopOnly

\* whether the loop can resume the call that awaits communicate
ReadyEarly(s) == tasks[s].process # "none"
ReadySerial(s) ==
    /\ tasks[s].process = "exited"
    /\ \A t \in Sessions \ {s} : tasks[t].pc # "waiting"
Ready(s) == tasks[s].process = "exited"

\* communicate returns; the call runs to its end without another await
LoopResume(s) ==
    /\ tasks[s].pc = "waiting"
    /\ Ready(s)
    /\ tasks' = [tasks EXCEPT
                    ![s] = Did(@, AfterExit(@.fate), "returned")]
    /\ LoopOnly

NextLoop ==
    \E s \in Sessions :
        \/ LoopReject(s)
        \/ LoopMissingCommand(s)
        \/ LoopCall(s)
        \/ LoopSpawned(s)
        \/ LoopSpawnFails(s)
        \/ ProcessExits(s)
        \/ LoopResume(s)

SpecLoop == InitLoop /\ [][NextLoop]_vars

\* the loop resumes a call whose await is over, and a process that is not
\* one that never ends does end
SpecLoopFair ==
    /\ SpecLoop
    /\ \A s \in Sessions : WF_vars(ProcessExits(s))
    /\ \A s \in Sessions : WF_vars(LoopResume(s))


\* the place of an event in the order of a call
Place(e) ==
    CASE e = "validate" -> 1
      [] e = "compile" -> 2
      [] e = "spawn" -> 3
      [] e = "exit" -> 4
      [] e = "exists" -> 5
      [] e = "read" -> 6
      [] e = "respond" -> 7

\* what the call of a session has done so far
Events(s) == tasks[s].events

\* the event is in the log of the session before the given place
Earlier(s, e, k) == \E j \in 1..(k - 1) : Events(s)[j] = e

\* C26: the events of a call come in the order validation, compilation,
\* spawn, exit of the process, looks at the media file, read of the media
\* file, response, each after the ones before it; the call looks at no
\* file and reads none before its own process has exited, whatever the
\* calls of other sessions are doing.
C26_EventsInOrder ==
    \A s \in Sessions :
        /\ \A j, k \in 1..Len(Events(s)) :
               j < k =>
                   \/ Place(Events(s)[j]) < Place(Events(s)[k])
                   \/ Events(s)[j] = "exists" /\ Events(s)[k] = "exists"
        /\ \A k \in 1..Len(Events(s)) :
               /\ k = 1 => Events(s)[k] = "validate"
               /\ Events(s)[k] = "spawn" => Earlier(s, "compile", k)
               /\ Events(s)[k] = "exit" => Earlier(s, "spawn", k)
               /\ Events(s)[k] \in {"exists", "read"} =>
                      /\ Earlier(s, "exit", k)
                      /\ tasks[s].process = "exited"
               /\ Events(s)[k] = "read" => Earlier(s, "exists", k)
               /\ Events(s)[k] = "respond" => k = Len(Events(s))

\* a call has gone through all its events, the read of the image among
\* them, while the process of the other session's call was running
C26_Witness ==
    /\ Events("s1") = <<"validate", "compile", "spawn", "exit", "exists",
                        "exists", "read", "respond">>
    /\ tasks["s2"].process = "running"
    /\ tasks["s2"].pc = "waiting"

\* the number of responses the call of a session has returned
RECURSIVE Count(_, _)
Count(es, e) ==
    IF es = <<>> THEN 0
    ELSE (IF Head(es) = e THEN 1 ELSE 0) + Count(Tail(es), e)

\* the call of the session has returned a response
Responded(s) == tasks[s].pc = "returned"

\* the call of the session has a process that will end
WillExit(s) == tasks[s].process = "running" /\ ~tasks[s].fate.hangs

\* the call of the session has a process that never ends
Hung(s) == tasks[s].process = "running" /\ tasks[s].fate.hangs

\* C27: a call that started its process returns a response only after the
\* process has exited, and does return one if the process exits; no call
\* returns more than one response; a call whose process never exits
\* waits for ever, and the calls of other sessions return all the same.
C27_ReturnsIffProcessExits ==
    /\ [](\A s \in Sessions :
              /\ (Responded(s) /\ tasks[s].process # "none") =>
                     tasks[s].process = "exited"
              /\ Hung(s) => tasks[s].pc = "waiting"
              /\ Count(Events(s), "respond") =
                     (IF Responded(s) THEN 1 ELSE 0))
    /\ \A s \in Sessions : WillExit(s) ~> Responded(s)
    /\ \A s \in Sessions : [](Hung(s) => [](Hung(s) /\ ~Responded(s)))
    /\ \A s, t \in Sessions :
           (s # t /\ Hung(t) /\ WillExit(s)) ~> (Hung(t) /\ Responded(s))

\* the call of one session waits on a process that never ends and the
\* call of the other has returned after its process exited
C27_Witness ==
    /\ Hung("s1")
    /\ tasks["s1"].pc = "waiting"
    /\ Responded("s2")
    /\ tasks["s2"].process = "exited"
    /\ Count(Events("s2"), "respond") = 1

====
